---------------------------- MODULE Spec2Model ----------------------------
(***************************************************************************)
(* Model of src-tauri/src/lib.rs: the Tauri commands of Prompt-Builder.    *)
(* Every command is a handler invoked from the idle state; its inputs are  *)
(* drawn from bounded sets.  Strings are sequences of ASCII codes, so that *)
(* trimming, case folding, ordering and number formatting are computed.    *)
(***************************************************************************)
EXTENDS Integers, Sequences, FiniteSets, TLC

VARIABLES
  pc,         \* position of the running command: "idle", a step name, "done"
  cmd,        \* name of the command invoked
  arg,        \* its arguments together with the environment it reads
  ret,        \* its Result: ok / err and the payload
  html_text,  \* local `html_text` of fetch_api_table_from_url
  reqs,       \* HTTP requests issued by the running command, in order
  disk        \* the output directory of save_chunk_file: file name -> contents

vars == <<pc, cmd, arg, ret, html_text, reqs, disk>>

(* ------------------------------ bounds -------------------------------- *)
MaxArr == 2       \* longest root array of a JSON response
MaxEntries == 3   \* entries below the scan root
MaxRows == 3      \* rows of a sheet
MaxTextLen == 4   \* bytes of a text document
MaxItems == 2     \* <li> elements of an HTML document
MaxFiles == 3     \* files in the directory after which no further save is made

(* ------------------------- strings (ASCII codes) ----------------------- *)
\* "" and a few literals used below
EmptyStr == <<>>
S_true  == <<116, 114, 117, 101>>
S_false == <<102, 97, 108, 115, 101>>

IsWs(c) == c \in {9, 10, 11, 12, 13, 32}

\* str::cmp : bytewise lexicographic order
StrLt(a, b) ==
  \E k \in 0..(Len(b) - 1) :
     /\ k <= Len(a)
     /\ SubSeq(a, 1, k) = SubSeq(b, 1, k)
     /\ (k = Len(a) \/ a[k + 1] < b[k + 1])

RECURSIVE Digits(_)
Digits(n) == IF n < 10 THEN <<48 + n>> ELSE Digits(n \div 10) \o <<48 + (n % 10)>>

\* format!("{}", n) / n.to_string() for the non-negative integers of the model
FormatInt(n) == Digits(n)

RECURSIVE TrimStart(_)
TrimStart(s) == IF s # <<>> /\ IsWs(Head(s)) THEN TrimStart(Tail(s)) ELSE s

RECURSIVE TrimEnd(_)
TrimEnd(s) ==
  IF s # <<>> /\ IsWs(s[Len(s)]) THEN TrimEnd(SubSeq(s, 1, Len(s) - 1)) ELSE s

\* str::trim
Trim(s) == TrimEnd(TrimStart(s))

RECURSIVE Concat(_)
Concat(ss) == IF ss = <<>> THEN <<>> ELSE Head(ss) \o Concat(Tail(ss))

\* [String]::join(sep)
RECURSIVE Join(_, _)
Join(ss, sep) ==
  IF ss = <<>> THEN <<>>
  ELSE IF Len(ss) = 1 THEN ss[1]
  ELSE ss[1] \o sep \o Join(Tail(ss), sep)

\* the sequences over S of length 0..n
SeqsUpTo(S, n) == UNION {[1..k -> S] : k \in 0..n}

Range(f) == {f[i] : i \in DOMAIN f}

None == [some |-> FALSE, val |-> <<>>]
Some(x) == [some |-> TRUE, val |-> x]

(* ---------------------------- JSON values ----------------------------- *)
\* serde_json::Value; an object is its (key, value) entries in iteration order
JV(t, s, n, b, els, kv) == [t |-> t, s |-> s, n |-> n, b |-> b, els |-> els, kv |-> kv]
JNull     == JV("null", <<>>, 0, FALSE, <<>>, <<>>)
JBool(b)  == JV("bool", <<>>, 0, b, <<>>, <<>>)
JNum(n)   == JV("number", <<>>, n, FALSE, <<>>, <<>>)
JStr(s)   == JV("string", s, 0, FALSE, <<>>, <<>>)
JArr(els) == JV("array", <<>>, 0, FALSE, els, <<>>)
JObj(kv)  == JV("object", <<>>, 0, FALSE, <<>>, kv)
KV(k, v)  == [k |-> k, v |-> v]

Keys(o) == {o.kv[i].k : i \in 1..Len(o.kv)}

\* Map::get
MapGet(o, key) ==
  IF key \in Keys(o)
  THEN Some((CHOOSE e \in Range(o.kv) : e.k = key).v)
  ELSE None

\* serde_json::to_string
RECURSIVE Serialize(_)
Serialize(v) ==
  CASE v.t = "null"   -> <<110, 117, 108, 108>>
    [] v.t = "bool"   -> IF v.b THEN S_true ELSE S_false
    [] v.t = "number" -> FormatInt(v.n)
    [] v.t = "string" -> <<34>> \o v.s \o <<34>>
    [] v.t = "array"  ->
         <<91>> \o Join([i \in 1..Len(v.els) |-> Serialize(v.els[i])], <<44>>) \o <<93>>
    [] v.t = "object" ->
         <<123>> \o Join([i \in 1..Len(v.kv) |->
                    <<34>> \o v.kv[i].k \o <<34, 58>> \o Serialize(v.kv[i].v)], <<44>>)
         \o <<125>>

json_to_string(v) ==
  CASE v.t = "null"   -> EmptyStr
    [] v.t = "bool"   -> IF v.b THEN S_true ELSE S_false
    [] v.t = "number" -> FormatInt(v.n)
    [] v.t = "string" -> v.s
    [] OTHER          -> Serialize(v)

\* arr.iter().filter_map(|x| x.as_object().cloned()).collect()
ObjectsIn(arr) == SelectSeq(arr.els, LAMBDA x : x.t = "object")

\* ["items","rows","data","result","notes","records"]
PreferredKeys ==
  << <<105, 116, 101, 109, 115>>,
     <<114, 111, 119, 115>>,
     <<100, 97, 116, 97>>,
     <<114, 101, 115, 117, 108, 116>>,
     <<110, 111, 116, 101, 115>>,
     <<114, 101, 99, 111, 114, 100, 115>> >>

\* faulty variant: the known-key tier takes the first key holding any array
RECURSIVE KnownKeyScan_AnyArray(_, _)
KnownKeyScan_AnyArray(obj, i) ==
  IF i > Len(PreferredKeys) THEN None
  ELSE LET val == MapGet(obj, PreferredKeys[i])
       IN IF val.some /\ val.val.t = "array"
          THEN Some(ObjectsIn(val.val))
          ELSE KnownKeyScan_AnyArray(obj, i + 1)

\* for key in [...] { if let Some(val) = obj.get(key) { ... return Some(objs) } }
RECURSIVE KnownKeyScan(_, _)
KnownKeyScan(obj, i) ==
  IF i > Len(PreferredKeys) THEN None
  ELSE LET val == MapGet(obj, PreferredKeys[i])
       IN IF val.some /\ val.val.t = "array" /\ ObjectsIn(val.val) # <<>>
          THEN Some(ObjectsIn(val.val))
          ELSE KnownKeyScan(obj, i + 1)

\* for (_k, val) in obj { ... return Some(objs) }
RECURSIVE AnyValueScan(_, _)
AnyValueScan(obj, i) ==
  IF i > Len(obj.kv) THEN None
  ELSE LET val == obj.kv[i].v
       IN IF val.t = "array" /\ ObjectsIn(val) # <<>>
          THEN Some(ObjectsIn(val))
          ELSE AnyValueScan(obj, i + 1)

find_array_of_objects(v) ==
  IF v.t = "array" /\ ObjectsIn(v) # <<>> THEN Some(ObjectsIn(v))
  ELSE IF v.t = "object"
       THEN LET known == KnownKeyScan(v, 1)
            IN IF known.some THEN known ELSE AnyValueScan(v, 1)
       ELSE None

\* BTreeSet<String>::into_iter().collect() : ascending order
RECURSIVE SortedSeq(_)
SortedSeq(S) ==
  IF S = {} THEN <<>>
  ELSE LET m == CHOOSE x \in S : \A y \in S \ {x} : StrLt(x, y)
       IN <<m>> \o SortedSeq(S \ {m})

\* for o in &objs { for k in o.keys() { cols.insert(k.clone()); } }
UnionColumns(objs) == SortedSeq(UNION {Keys(objs[i]) : i \in 1..Len(objs)})

\* faulty variant: a row holds only the keys its own object has
ProjectRow_OwnKeys(o, columns) ==
  [c \in Range(columns) \cap Keys(o) |-> json_to_string(MapGet(o, c).val)]

\* for c in &columns { r.insert(c, o.get(c).map(json_to_string).unwrap_or_default()) }
ProjectRow(o, columns) ==
  [c \in Range(columns) |->
     LET x == MapGet(o, c) IN IF x.some THEN json_to_string(x.val) ELSE EmptyStr]

Ok(fields) == [ok |-> TRUE, err |-> "", val |-> fields]
Err(e) == [ok |-> FALSE, err |-> e, val |-> <<>>]

\* the table built from a decoded response (shared tail of both fetch commands)
NormalizeTable(v, noTable) ==
  LET found == find_array_of_objects(v)
  IN IF ~found.some THEN Err(noTable)
     ELSE LET columns == UnionColumns(found.val)
          IN Ok([columns |-> columns,
                 rows |-> [i \in 1..Len(found.val) |-> ProjectRow(found.val[i], columns)]])


(* ------------------- inputs of the table-fetching commands ------------- *)
K_a == <<97>>
K_b == <<98>>
K_c == <<99>>
K_x == <<120>>

\* elements a response array may hold: flat objects and non-objects
Elems ==
  { JObj(<<KV(K_a, JStr(<<49>>)), KV(K_b, JStr(<<50>>))>>),   \* {"a":"1","b":"2"}
    JObj(<<KV(K_a, JStr(<<51>>))>>),                          \* {"a":"3"}
    JObj(<<KV(K_b, JNull)>>),                                 \* {"b":null}
    JObj(<<KV(K_c, JBool(TRUE)), KV(K_a, JArr(<<JNum(3)>>))>>), \* {"c":true,"a":[3]}
    JObj(<<>>),                                               \* {}
    JStr(<<115>>),                                            \* "s"
    JNum(7) }

RootArrays == {JArr(els) : els \in SeqsUpTo(Elems, MaxArr)}

\* values a field of a root object may hold
FieldVals ==
  { JStr(<<115>>),
    JArr(<<>>),
    JArr(<<JStr(<<115>>)>>),
    JArr(<<JObj(<<KV(K_a, JStr(<<51>>))>>)>>),
    JArr(<<JStr(<<115>>), JObj(<<KV(K_b, JNull)>>)>>),
    JArr(<<JObj(<<KV(K_b, JNull)>>), JObj(<<KV(K_a, JStr(<<51>>))>>)>>) }

FieldKeys == Range(PreferredKeys) \cup {K_x}

RootObjects ==
  {JObj(<<KV(k, v)>>) : k \in FieldKeys, v \in FieldVals}
  \cup {JObj(<<KV(ks[1], v1), KV(ks[2], v2)>>) :
          ks \in {p \in FieldKeys \X FieldKeys : p[1] # p[2]},
          v1 \in FieldVals, v2 \in FieldVals}

JsonValues == RootArrays \cup RootObjects \cup {JNull, JStr(<<115>>)}

\* what the POST to the endpoint can come to
PostOutcomes ==
  {[kind |-> k, v |-> JNull] : k \in {"send_err", "status_err", "json_err"}}
  \cup {[kind |-> "json", v |-> v] : v \in JsonValues}

NoOutcome == [kind |-> "none", v |-> JNull]

\* lines 622-644 / 770-793: status check, decode, discovery, projection
TableOf(out, noTable) ==
  IF out.kind = "json" THEN NormalizeTable(out.v, noTable) ELSE Err(out.kind)

\* a URL is its host followed by its path segments
Urls == {<<h, p>> : h \in {"ecfr.gov", "example.org"}, p \in {"on", "current", "title"}}
NoUrl == <<>>

\* a downloaded body: whether it holds "flush-paragraph-2", and which page it is
Bodies == {[marker |-> m, page |-> p] : m \in BOOLEAN, p \in {"first"}}
RetryBodies == {[marker |-> m, page |-> p] : m \in BOOLEAN, p \in {"retry"}}
NoBody == [marker |-> FALSE, page |-> "none"]
FileBody == [marker |-> FALSE, page |-> "file"]

GetReq(u)      == [method |-> "GET", url |-> u, body |-> NoBody]
PostReq(body)  == [method |-> "POST", url |-> <<"endpoint">>, body |-> body]

\* url.replace("/on/", "/current/")
ReplaceOn(u) == [i \in DOMAIN u |-> IF u[i] = "on" THEN "current" ELSE u[i]]

(* --------------------------- fetch_api_table --------------------------- *)
FetchApiTable ==
  /\ pc = "idle"
  /\ \E readOk \in BOOLEAN, out \in PostOutcomes :
       /\ cmd' = "fetch_api_table"
       /\ arg' = [url |-> NoUrl, gets |-> <<>>,
                  resp |-> IF readOk THEN out ELSE NoOutcome]
       /\ reqs' = IF readOk THEN <<PostReq(FileBody)>> ELSE <<>>
       /\ ret' = IF readOk THEN TableOf(out, "No array of objects in API response")
                 ELSE Err("read_err")
  /\ pc' = "done"
  /\ UNCHANGED <<html_text, disk>>

(* ----------------------- fetch_api_table_from_url ---------------------- *)
UrlStart ==
  /\ pc = "idle"
  /\ \E u \in Urls :
       /\ cmd' = "fetch_api_table_from_url"
       /\ arg' = [url |-> u, gets |-> <<>>, resp |-> NoOutcome]
       /\ reqs' = <<GetReq(u)>>
  /\ pc' = "get1"
  /\ UNCHANGED <<ret, html_text, disk>>

\* what a GET came back with: how it ended, and the body when one was read
Answer(result, body) == [result |-> result, body |-> body]

UrlFail(e) ==
  /\ ret' = Err(e)
  /\ arg' = [arg EXCEPT !.gets = Append(@, Answer(e, NoBody))]
  /\ pc' = "done"
  /\ UNCHANGED <<cmd, html_text, reqs, disk>>

\* lines 721-759: the first GET answers; decide on the /current/ fallback
UrlGet1 ==
  /\ pc = "get1"
  /\ \/ \E e \in {"get_failed", "get_status", "bytes_err"} : UrlFail(e)
     \/ \E body \in Bodies :
          LET url == arg.url
              looks_like_app_shell == ~body.marker /\ "ecfr.gov" \in Range(url)
          IN /\ html_text' = body
             /\ IF looks_like_app_shell /\ "on" \in Range(url)
                THEN /\ reqs' = Append(reqs, GetReq(ReplaceOn(url)))
                     /\ pc' = "get2"
                ELSE /\ reqs' = Append(reqs, PostReq(body))
                     /\ pc' = "post"
             /\ arg' = [arg EXCEPT !.gets = Append(@, Answer("ok", body))]
             /\ UNCHANGED <<cmd, ret, disk>>

\* faulty variant: any successful fallback replaces the first body
KeptBody_AnySuccess(first, success, html2) ==
  IF success THEN html2 ELSE first

\* lines 750-757: the fallback body replaces the first one only when the
\* status is a success and the body holds the marker
KeptBody(first, success, html2) ==
  IF success /\ html2.marker THEN html2 ELSE first

\* lines 742-757: the fallback GET answers; a non-success status is not an
\* error here and its body is not read
UrlGet2 ==
  /\ pc = "get2"
  /\ \/ \E e \in {"get_failed", "bytes_err"} : UrlFail(e)
     \/ \E success \in BOOLEAN, html2 \in RetryBodies :
          LET kept == KeptBody(html_text, success, html2)
          IN /\ html_text' = kept
             /\ reqs' = Append(reqs, PostReq(kept))
             /\ arg' = [arg EXCEPT !.gets = Append(@,
                           IF success THEN Answer("ok", html2)
                           ELSE Answer("get_status", NoBody))]
             /\ pc' = "post"
             /\ UNCHANGED <<cmd, ret, disk>>

\* lines 762-793: the POST answers
UrlPost ==
  /\ pc = "post"
  /\ \E out \in PostOutcomes :
       /\ arg' = [arg EXCEPT !.resp = out]
       /\ ret' = TableOf(out, "No array of objects in extraction response")
  /\ pc' = "done"
  /\ UNCHANGED <<cmd, html_text, reqs, disk>>

NoArg == [url |-> NoUrl, gets |-> <<>>, resp |-> NoOutcome]

InitIdle ==
  /\ pc = "idle"
  /\ cmd = "none"
  /\ ret = Err("")
  /\ html_text = NoBody
  /\ reqs = <<>>
  /\ disk = <<>>

InitApi == InitIdle /\ arg = NoArg

NextApi == FetchApiTable \/ UrlStart \/ UrlGet1 \/ UrlGet2 \/ UrlPost

SpecApi == InitApi /\ [][NextApi]_vars


(* ============================ scan_dir ================================= *)
\* A directory tree on disk.  Entry i lies in the directory `parent` (0 is the
\* scan root); read_dir yields the entries of a directory by increasing i.
\*   ign   : the root .gitignore patterns match the entry's path
\*   fault : "entry" (read_dir yields Err for it), "metadata" (ent.metadata()
\*           fails), "list" (read_dir of this directory fails), or "none"
Entry(name, dir, ign, fault) == [name |-> name, dir |-> dir, ign |-> ign, fault |-> fault]

EntryKinds ==
  { Entry(<<97>>, FALSE, FALSE, "none"),        \* file a
    Entry(<<66>>, FALSE, FALSE, "none"),        \* file B
    Entry(<<97>>, TRUE, FALSE, "none"),         \* dir a
    Entry(<<66>>, TRUE, FALSE, "none"),         \* dir B
    Entry(<<46, 104>>, FALSE, FALSE, "none"),   \* file .h
    Entry(<<99>>, FALSE, TRUE, "none"),         \* file c, ignored
    Entry(<<99>>, TRUE, TRUE, "none"),          \* dir c, ignored
    Entry(<<100>>, FALSE, FALSE, "entry"),      \* d, unreadable entry
    Entry(<<100>>, FALSE, FALSE, "metadata"),   \* d, no metadata
    Entry(<<100>>, TRUE, FALSE, "list") }       \* dir d, cannot be listed

RootName == <<114>>   \* "r"

\* the trees of n entries: parents come first, only directories have entries,
\* and the names within one directory are distinct
TreesOf(n) ==
  {t \in [ents : [1..n -> EntryKinds], parent : [1..n -> 0..n]] :
     /\ \A i \in 1..n : t.parent[i] < i
     /\ \A i \in 1..n : t.parent[i] # 0 => t.ents[t.parent[i]].dir
     /\ \A i, j \in 1..n :
          (i < j /\ t.parent[i] = t.parent[j]) => t.ents[i].name # t.ents[j].name}

FileSystems ==
  {[root |-> "missing", gi |-> FALSE, ents |-> <<>>, parent |-> <<>>],
   [root |-> "unreadable", gi |-> FALSE, ents |-> <<>>, parent |-> <<>>]}
  \cup {[root |-> "ok", gi |-> g, ents |-> t.ents, parent |-> t.parent] :
          g \in BOOLEAN, t \in UNION {TreesOf(n) : n \in 0..MaxEntries}}

RECURSIVE PathOf(_, _)
PathOf(fs, d) ==
  IF d = 0 THEN <<RootName>> ELSE Append(PathOf(fs, fs.parent[d]), fs.ents[d].name)

NameOf(fs, d) == IF d = 0 THEN RootName ELSE fs.ents[d].name

\* Gitignore::matched_path_or_any_parents(rel, is_dir).is_ignore()
RECURSIVE MatchedPathOrAnyParents(_, _)
MatchedPathOrAnyParents(fs, d) ==
  d # 0 /\ (fs.ents[d].ign \/ MatchedPathOrAnyParents(fs, fs.parent[d]))

is_ignored(fs, d) == fs.gi /\ MatchedPathOrAnyParents(fs, d)

\* char::to_lowercase on ASCII, str::to_lowercase
LowerChar(c) == IF c >= 65 /\ c <= 90 THEN c + 32 ELSE c
to_lowercase(s) == [i \in DOMAIN s |-> LowerChar(s[i])]

FileNode(name, path, is_dir, has_children, children) ==
  [name |-> name, path |-> path, is_dir |-> is_dir,
   has_children |-> has_children, children |-> children]

\* faulty variant: names are compared as written, not lower-cased
SortLess_CaseSensitive(a, b) ==
  IF a.is_dir /\ ~b.is_dir THEN TRUE
  ELSE IF ~a.is_dir /\ b.is_dir THEN FALSE
  ELSE StrLt(a.name, b.name)

\* the comparator of children.sort_by: Ordering::Less
SortLess(a, b) ==
  IF a.is_dir /\ ~b.is_dir THEN TRUE
  ELSE IF ~a.is_dir /\ b.is_dir THEN FALSE
  ELSE StrLt(to_lowercase(a.name), to_lowercase(b.name))

\* Vec::sort_by is a stable sort: x goes before the first element it is Less than
RECURSIVE InsertSorted(_, _)
InsertSorted(x, sorted) ==
  IF sorted = <<>> THEN <<x>>
  ELSE IF SortLess(x, Head(sorted)) THEN <<x>> \o sorted
  ELSE <<Head(sorted)>> \o InsertSorted(x, Tail(sorted))

RECURSIVE SortChildren(_)
SortChildren(children) ==
  IF children = <<>> THEN <<>>
  ELSE InsertSorted(children[Len(children)],
                    SortChildren(SubSeq(children, 1, Len(children) - 1)))

\* the entries of directory d in the order read_dir yields them
ReadDir(fs, d) ==
  LET n == Len(fs.ents)
      F[i \in 0..n] ==
        IF i = 0 THEN <<>>
        ELSE IF fs.parent[i] = d THEN Append(F[i - 1], i) ELSE F[i - 1]
  IN F[n]

ReadDirFails(fs, d) ==
  IF d = 0 THEN fs.root = "unreadable" ELSE fs.ents[d].fault = "list"

\* faulty variant: line 114 skips only ignored files, leaving directories to line 82
ChildIgnored_FilesOnly(fs, i) == ~fs.ents[i].dir /\ is_ignored(fs, i)

\* line 114: if is_ignored(root, gi, &p, is_dir) { continue; }
ChildIgnored(fs, i) == is_ignored(fs, i)

\* line 82: if dir != root && is_ignored(root, gi, dir, true)
DirIgnored(fs, d) == d # 0 /\ is_ignored(fs, d)

RECURSIVE build_tree_rec(_, _)
RECURSIVE CollectChildren(_, _, _)

\* the loop of lines 93-129 over the entries still to read
CollectChildren(fs, todo, children) ==
  IF todo = <<>> THEN Ok(children)
  ELSE LET i == Head(todo)
           e == fs.ents[i]
       IN IF e.fault = "entry" THEN CollectChildren(fs, Tail(todo), children)
          ELSE IF Head(e.name) = 46 THEN CollectChildren(fs, Tail(todo), children)
          ELSE IF e.fault = "metadata" THEN CollectChildren(fs, Tail(todo), children)
          ELSE IF ChildIgnored(fs, i) THEN CollectChildren(fs, Tail(todo), children)
          ELSE IF e.dir
               THEN LET node == build_tree_rec(fs, i)
                    IN IF ~node.ok THEN node
                       ELSE CollectChildren(fs, Tail(todo), Append(children, node.val))
               ELSE CollectChildren(fs, Tail(todo),
                      Append(children, FileNode(e.name, PathOf(fs, i), FALSE, FALSE, <<>>)))

build_tree_rec(fs, d) ==
  IF DirIgnored(fs, d)
  THEN Ok(FileNode(NameOf(fs, d), PathOf(fs, d), TRUE, TRUE, <<>>))
  ELSE IF ReadDirFails(fs, d) THEN Err("io")
  ELSE LET children == CollectChildren(fs, ReadDir(fs, d), <<>>)
       IN IF ~children.ok THEN children
          ELSE Ok(FileNode(NameOf(fs, d), PathOf(fs, d), TRUE, TRUE,
                           SortChildren(children.val)))

scan_dir(fs) ==
  IF fs.root = "missing" THEN Err("Path does not exist")
  ELSE build_tree_rec(fs, 0)

ScanDir ==
  /\ pc = "idle"
  /\ \E fs \in FileSystems :
       /\ cmd' = "scan_dir"
       /\ arg' = fs
       /\ ret' = scan_dir(fs)
  /\ pc' = "done"
  /\ UNCHANGED <<html_text, reqs, disk>>

InitScan == InitIdle /\ arg = [root |-> "missing", gi |-> FALSE, ents |-> <<>>, parent |-> <<>>]

NextScan == ScanDir

SpecScan == InitScan /\ [][NextScan]_vars

(* ======================== extract_excel_units ========================== *)
\* calamine::DataType; a Float is whole + tenth/10
Cell(t, str, whole, tenth, b) == [t |-> t, s |-> str, n |-> whole, d |-> tenth, b |-> b]
CEmpty       == Cell("Empty", <<>>, 0, 0, FALSE)
CString(str) == Cell("String", str, 0, 0, FALSE)
CFloat(w, d) == Cell("Float", <<>>, w, d, FALSE)
CInt(n)      == Cell("Int", <<>>, n, 0, FALSE)
CBool(b)     == Cell("Bool", <<>>, 0, 0, b)

cell_to_string(c) ==
  CASE c.t = "String" -> Some(c.s)
    [] c.t = "Float"  -> Some(IF c.d = 0 THEN FormatInt(c.n)
                              ELSE FormatInt(c.n) \o <<46>> \o FormatInt(c.d))
    [] c.t = "Int"    -> Some(FormatInt(c.n))
    [] c.t = "Bool"   -> Some(IF c.b THEN S_true ELSE S_false)
    [] c.t = "Empty"  -> None
    [] OTHER          -> Some(c.s)

\* PromptUnit; meta is Some({"sheet", "rowIndex"}) for spreadsheet units only
PromptUnit(id, body, meta) == [id |-> id, body |-> body, meta |-> meta]
NoMeta == [some |-> FALSE, rowIndex |-> 0]
RowMeta(i) == [some |-> TRUE, rowIndex |-> i]

\* str::eq_ignore_ascii_case
eq_ignore_ascii_case(a, b) == to_lowercase(a) = to_lowercase(b)

\* the 0-based index of the first row holding a non-empty cell, or -1
RECURSIVE FirstNonEmptyRow(_, _)
FirstNonEmptyRow(rows, i) ==
  IF i >= Len(rows) THEN -1
  ELSE IF \E j \in 1..Len(rows[i + 1]) : rows[i + 1][j].t # "Empty" THEN i
  ELSE FirstNonEmptyRow(rows, i + 1)

\* line 303: the header names of extract_excel_units
HeaderNames(row) ==
  [j \in 1..Len(row) |->
     LET x == cell_to_string(row[j])
     IN IF x.some THEN x.val ELSE <<99, 111, 108>> \o FormatInt(j)]

\* header.iter().position(|h| h.eq_ignore_ascii_case(name)), 0-based, or -1
Position(header, name) ==
  LET hits == {j \in 1..Len(header) : eq_ignore_ascii_case(header[j], name)}
  IN IF hits = {} THEN -1 ELSE (CHOOSE j \in hits : \A h \in hits : j <= h) - 1

\* row.get(idx).and_then(cell_to_string)
CellText(row, idx) ==
  IF idx + 1 \in 1..Len(row) THEN cell_to_string(row[idx + 1]) ELSE None

\* lines 327-334: the trimmed, non-empty description cells joined by "\n"
RECURSIVE DescParts(_, _)
DescParts(row, desc_indices) ==
  IF desc_indices = <<>> THEN <<>>
  ELSE LET x == CellText(row, Head(desc_indices))
           v == IF x.some THEN Trim(x.val) ELSE <<>>
       IN (IF v # <<>> THEN <<v>> ELSE <<>>) \o DescParts(row, Tail(desc_indices))

\* faulty variant: a row with an empty body still yields a unit
RowUnit_KeepEmptyBody(row, i, id_idx, desc_indices) ==
  LET x == CellText(row, id_idx)
      id == Trim(IF x.some THEN x.val ELSE <<>>)
      body == Join(DescParts(row, desc_indices), <<10>>)
  IN IF id = <<>> THEN None
     ELSE Some(PromptUnit(id, body, RowMeta(i)))

\* lines 324-344: the unit of one data row, if it has one
RowUnit(row, i, id_idx, desc_indices) ==
  LET x == CellText(row, id_idx)
      id == Trim(IF x.some THEN x.val ELSE <<>>)
      body == Join(DescParts(row, desc_indices), <<10>>)
  IN IF id = <<>> THEN None
     ELSE IF body = <<>> THEN None
     ELSE Some(PromptUnit(id, body, RowMeta(i)))

\* lines 322-345: for (i, row) in range.rows().enumerate()
RECURSIVE ExcelLoop(_, _, _, _, _, _)
ExcelLoop(rows, i, header_idx, id_idx, desc_indices, units) ==
  IF i >= Len(rows) THEN units
  ELSE IF i <= header_idx
       THEN ExcelLoop(rows, i + 1, header_idx, id_idx, desc_indices, units)
  ELSE LET u == RowUnit(rows[i + 1], i, id_idx, desc_indices)
       IN ExcelLoop(rows, i + 1, header_idx, id_idx, desc_indices,
                    IF u.some THEN Append(units, u.val) ELSE units)

extract_excel_units(wb, config) ==
  IF wb.open = "error" THEN Err("open")
  ELSE IF wb.open = "no_sheet" THEN Err("Sheet not found")
  ELSE LET rows == wb.rows
           header_idx == FirstNonEmptyRow(rows, 0)
       IN IF header_idx = -1 THEN Err("Could not detect header row")
          ELSE LET header == HeaderNames(rows[header_idx + 1])
                   id_idx == Position(header, config.id_column)
                   desc_indices == [k \in 1..Len(config.description_columns) |->
                                      Position(header, config.description_columns[k])]
               IN IF id_idx = -1 THEN Err("ID column not found")
                  ELSE IF \E k \in 1..Len(desc_indices) : desc_indices[k] = -1
                       THEN Err("Description column not found")
                  ELSE Ok(ExcelLoop(rows, 0, header_idx, id_idx, desc_indices, <<>>))

(* ------------------------------ inspect_excel -------------------------- *)
\* "col{N}"
ColName(n) == <<99, 111, 108>> \o FormatInt(n)

\* format!("{}", f) of a Float
DisplayFloat(c) ==
  IF c.d = 0 THEN FormatInt(c.n) ELSE FormatInt(c.n) \o <<46>> \o FormatInt(c.d)

\* lines 257-265: the column names inspect_excel makes of the header row
InspectHeader(row) ==
  [i \in 1..Len(row) |->
     LET c == row[i]
     IN CASE c.t = "String" -> IF Trim(c.s) = <<>> THEN ColName(i) ELSE Trim(c.s)
          [] c.t = "Float"  -> DisplayFloat(c)
          [] c.t = "Int"    -> FormatInt(c.n)
          [] c.t = "Bool"   -> IF c.b THEN S_true ELSE S_false
          [] OTHER          -> ColName(i)]

\* lines 253-275: the columns of the one sheet
SheetColumns(rows) ==
  LET h == FirstNonEmptyRow(rows, 0)
  IN IF h >= 0 THEN InspectHeader(rows[h + 1])
     ELSE IF rows # <<>> THEN [i \in 1..Len(rows[1]) |-> ColName(i)]
     ELSE <<>>

\* lines 244-280; the payload is the column list of every sheet
inspect_excel(wb) ==
  IF wb.open = "error" THEN Err("open")
  ELSE IF wb.open = "no_sheet" THEN Ok(<<>>)
  ELSE Ok(<<SheetColumns(wb.rows)>>)

\* the rows a sheet is made of: three cells wide
SheetRows ==
  { <<CEmpty, CEmpty, CEmpty>>,
    <<CString(<<73>>), CString(<<80>>), CString(<<81>>)>>,        \* I   P   Q
    <<CString(<<120>>), CString(<<104>>), CString(<<119>>)>>,     \* x   h   w
    <<CString(<<32, 120, 32>>), CString(<<32>>), CString(<<119, 32>>)>>,
    <<CString(<<32>>), CString(<<104>>), CEmpty>>,                \* blank id
    <<CEmpty, CString(<<104>>), CString(<<119>>)>>,               \* no id
    <<CFloat(2, 0), CEmpty, CString(<<32>>)>>,                    \* empty body
    <<CFloat(2, 5), CBool(TRUE), CEmpty>>,
    <<CInt(7), CString(<<>>), CInt(3)>> }

K_i == <<105>>
K_p == <<112>>
K_q == <<113>>
K_z == <<122>>

ExcelConfigs ==
  { [id_column |-> K_i, description_columns |-> <<K_p, K_q>>],
    [id_column |-> K_i, description_columns |-> <<<<81>>>>],
    [id_column |-> <<73>>, description_columns |-> <<K_q, K_p>>],
    [id_column |-> K_i, description_columns |-> <<>>],
    [id_column |-> K_i, description_columns |-> <<K_z>>],
    [id_column |-> K_z, description_columns |-> <<K_p>>],
    [id_column |-> <<72>>, description_columns |-> <<ColName(1)>>] }   \* H, col1

NoExcelConfig == [id_column |-> <<>>, description_columns |-> <<>>]

Workbooks ==
  {[open |-> o, rows |-> <<>>] : o \in {"error", "no_sheet"}}
  \cup {[open |-> "ok", rows |-> r] : r \in SeqsUpTo(SheetRows, MaxRows)}

ExtractExcel ==
  /\ pc = "idle"
  /\ \E wb \in Workbooks, config \in ExcelConfigs :
       /\ cmd' = "extract_excel_units"
       /\ arg' = [wb |-> wb, config |-> config]
       /\ ret' = extract_excel_units(wb, config)
  /\ pc' = "done"
  /\ UNCHANGED <<html_text, reqs, disk>>

InspectExcel ==
  /\ pc = "idle"
  /\ \E wb \in Workbooks :
       /\ cmd' = "inspect_excel"
       /\ arg' = [wb |-> wb, config |-> NoExcelConfig]
       /\ ret' = inspect_excel(wb)
  /\ pc' = "done"
  /\ UNCHANGED <<html_text, reqs, disk>>

InitExtract == InitIdle /\ arg = <<>>

NextExcel == ExtractExcel \/ InspectExcel

SpecExcel == InitExtract /\ [][NextExcel]_vars

(* ======================== extract_regex_blocks ========================= *)
\* A pattern of the model: an optional ^, a literal, an optional capture (.)
\*   ^lit   lit   lit(.)          `valid` is FALSE for a pattern that fails to build
Pattern(bol, lit, dot, valid) == [bol |-> bol, lit |-> lit, dot |-> dot, valid |-> valid]

\* f.contains('i') / ('m') / ('s')
HasFlag(flags, c) == flags.some /\ c \in Range(flags.val)

\* RegexBuilder::new(p).case_insensitive(i).multi_line(m).dot_matches_new_line(s)
BuildRegex(p, flags) ==
  [bol |-> p.bol, lit |-> p.lit, dot |-> p.dot,
   i |-> HasFlag(flags, 105), m |-> HasFlag(flags, 109), s |-> HasFlag(flags, 115)]

\* the length of the match of re starting at byte offset p, or -1
MatchLenAt(re, text, p) ==
  LET n == Len(re.lit)
  IN IF /\ re.bol => (p = 0 \/ (re.m /\ text[p] = 10))
        /\ p + n <= Len(text)
        /\ \A k \in 1..n :
              \/ text[p + k] = re.lit[k]
              \/ (re.i /\ LowerChar(text[p + k]) = LowerChar(re.lit[k]))
        /\ re.dot => (p + n < Len(text) /\ (re.s \/ text[p + n + 1] # 10))
     THEN n + (IF re.dot THEN 1 ELSE 0)
     ELSE -1

\* Regex::find_at: the leftmost match at or after `from`, or -1
RECURSIVE FindAt(_, _, _)
FindAt(re, text, from) ==
  IF from > Len(text) THEN -1
  ELSE IF MatchLenAt(re, text, from) >= 0 THEN from
  ELSE FindAt(re, text, from + 1)

\* delim.find_iter(&text).map(|m| m.start()).collect()
RECURSIVE FindIterStarts(_, _, _)
FindIterStarts(re, text, from) ==
  LET p == FindAt(re, text, from)
  IN IF p = -1 THEN <<>>
     ELSE LET n == MatchLenAt(re, text, p)
          IN <<p>> \o FindIterStarts(re, text, IF n = 0 THEN p + 1 ELSE p + n)

\* re.captures(text).and_then(|c| c.get(1)).map(|m| m.as_str().to_string())
CaptureId(id_re, text) ==
  IF ~id_re.some THEN None
  ELSE LET re == id_re.val
           p == FindAt(re, text, 0)
       IN IF p = -1 \/ ~re.dot THEN None
          ELSE Some(<<text[p + Len(re.lit) + 1]>>)

\* faulty variant: the text before the first match is not a segment
Boundaries_NoLeadingZero(starts, len) == Append(starts, len)

\* starts.insert(0, 0); starts.push(text.len())
Boundaries(starts, len) == <<0>> \o Append(starts, len)

\* faulty variant: the fallback id is the segment's position, dropped segments included
FallbackId_ByWindow(units, w) == FormatInt(w)

\* format!("{}", units.len()+1)
FallbackId(units, w) == FormatInt(Len(units) + 1)

\* lines 410-423: for w in starts.windows(2)
RECURSIVE RegexLoop(_, _, _, _, _)
RegexLoop(text, bounds, w, id_re, units) ==
  IF w >= Len(bounds) THEN units
  ELSE LET s == bounds[w]
           e == bounds[w + 1]
           block == Trim(SubSeq(text, s + 1, e))
           cap == CaptureId(id_re, block)
           id == IF cap.some THEN cap.val ELSE FallbackId(units, w)
       IN IF e <= s THEN RegexLoop(text, bounds, w + 1, id_re, units)
          ELSE IF block = <<>> THEN RegexLoop(text, bounds, w + 1, id_re, units)
          ELSE RegexLoop(text, bounds, w + 1, id_re,
                         Append(units, PromptUnit(id, block, NoMeta)))

\* faulty variant: the whole-document unit ignores the id-capture pattern
WholeUnitId_Literal(id_re, text) == <<49>>

\* lines 399-401: the id of the one unit made of the whole document
WholeUnitId(id_re, text) ==
  LET cap == CaptureId(id_re, text)
  IN IF cap.some THEN cap.val ELSE <<49>>

extract_regex_blocks(file, config) ==
  IF ~file.readable THEN Err("read")
  ELSE IF ~config.delimiter.valid THEN Err("regex")
  ELSE IF config.id_capture.some /\ ~config.id_capture.val.valid THEN Err("regex")
  ELSE LET text == file.text
           delim == BuildRegex(config.delimiter, config.flags)
           id_re == IF config.id_capture.some
                    THEN Some(BuildRegex(config.id_capture.val, config.flags))
                    ELSE None
           starts == FindIterStarts(delim, text, 0)
       IN IF starts = <<>>
          THEN LET id == WholeUnitId(id_re, text)
                   body == Trim(text)
               IN Ok(IF body # <<>> THEN <<PromptUnit(id, body, NoMeta)>> ELSE <<>>)
          ELSE Ok(RegexLoop(text, Boundaries(starts, Len(text)), 1, id_re, <<>>))

\* "\n", " ", "#", "a"
TextChars == {10, 32, 35, 97}

TextFiles ==
  {[readable |-> FALSE, text |-> <<>>]}
  \cup {[readable |-> TRUE, text |-> t] : t \in SeqsUpTo(TextChars, MaxTextLen)}

Delimiters ==
  { Pattern(FALSE, <<35>>, FALSE, TRUE),     \* #
    Pattern(TRUE, <<35>>, FALSE, TRUE),      \* ^#
    Pattern(FALSE, <<65>>, FALSE, TRUE),     \* A
    Pattern(FALSE, <<32>>, FALSE, TRUE),     \* a space
    Pattern(TRUE, <<>>, FALSE, TRUE),        \* ^
    Pattern(FALSE, <<>>, FALSE, FALSE) }     \* a pattern that does not compile

IdCaptures ==
  { None,
    Some(Pattern(FALSE, <<35>>, TRUE, TRUE)),   \* #(.)
    Some(Pattern(FALSE, <<97>>, FALSE, TRUE)) } \* a   (no group 1)

FlagStrings == {None, Some(<<105, 109>>), Some(<<115>>)}   \* absent, "im", "s"

RegexConfigs ==
  {[delimiter |-> d, id_capture |-> c, flags |-> f] :
     d \in Delimiters, c \in IdCaptures, f \in FlagStrings}

ExtractRegex ==
  /\ pc = "idle"
  /\ \E file \in TextFiles, config \in RegexConfigs :
       /\ cmd' = "extract_regex_blocks"
       /\ arg' = [file |-> file, config |-> config]
       /\ ret' = extract_regex_blocks(file, config)
  /\ pc' = "done"
  /\ UNCHANGED <<html_text, reqs, disk>>

NextRegex == ExtractRegex

SpecRegex == InitExtract /\ [][NextRegex]_vars

(* ========================= extract_html_blocks ========================= *)
\* A node of the parsed document: an element (tag, attributes, children) or a
\* text node (s).  Children are in document order.
Node(t, tag, attrs, str, kids) ==
  [t |-> t, tag |-> tag, attrs |-> attrs, s |-> str, kids |-> kids]
TextNode(str)             == Node("text", <<>>, {}, str, <<>>)
Element(tag, attrs, kids) == Node("element", tag, attrs, <<>>, kids)
Attribute(name, value)    == [name |-> name, value |-> value]

A_id == <<105, 100>>   \* "id"
A_k  == <<107>>        \* "k"
T_li == <<108, 105>>   \* "li"
T_b  == <<98>>         \* "b"
T_p  == <<112>>        \* "p"

\* node.value().attr(name)
AttrOf(el, name) ==
  IF \E a \in el.attrs : a.name = name
  THEN Some((CHOOSE a \in el.attrs : a.name = name).value)
  ELSE None

\* el.text().collect::<String>() : the text nodes below el, in document order
RECURSIVE TextOf(_)
TextOf(n) ==
  IF n.t = "text" THEN n.s
  ELSE Concat([k \in 1..Len(n.kids) |-> TextOf(n.kids[k])])

\* the elements below a node, in document order (the node itself left out)
RECURSIVE ElementsBelow(_)
ElementsBelow(n) ==
  Concat([k \in 1..Len(n.kids) |->
            IF n.kids[k].t = "element"
            THEN <<n.kids[k]>> \o ElementsBelow(n.kids[k])
            ELSE <<>>])

\* doc.select(sel) / el.select(sel) for a type selector
Select(n, sel) == SelectSeq(ElementsBelow(n), LAMBDA e : e.tag = sel)

\* Selector::parse: a type selector parses when it is made of letters
SelectorParse(str) ==
  LET t == Trim(str)
  IN IF t # <<>> /\ \A k \in 1..Len(t) : t[k] >= 97 /\ t[k] <= 122
     THEN Some(t) ELSE None

\* Some(s) if !s.trim().is_empty() => Some(Selector::parse(s)?), _ => None
SelectorGiven(opt) == opt.some /\ Trim(opt.val) # <<>>

\* faulty variant: with no id-selector the item's text is tried before the position
ResolveId_TextBeforePosition(el, i, id_sel, id_attr) ==
  IF id_sel.some
  THEN LET found == Select(el, id_sel.val)
       IN IF found # <<>>
          THEN LET node == found[1]
                   v == AttrOf(node, id_attr)
                   text == Trim(TextOf(node))
               IN IF v.some THEN v.val
                  ELSE IF text = <<>> THEN FormatInt(i + 1) ELSE text
          ELSE FormatInt(i + 1)
  ELSE LET v == AttrOf(el, id_attr)
           text == Trim(TextOf(el))
       IN IF v.some THEN v.val
          ELSE IF text = <<>> THEN FormatInt(i + 1) ELSE text

\* lines 461-478
ResolveId(el, i, id_sel, id_attr) ==
  IF id_sel.some
  THEN LET found == Select(el, id_sel.val)
       IN IF found # <<>>
          THEN LET node == found[1]
                   v == AttrOf(node, id_attr)
                   text == Trim(TextOf(node))
               IN IF v.some THEN v.val
                  ELSE IF text = <<>> THEN FormatInt(i + 1) ELSE text
          ELSE FormatInt(i + 1)
  ELSE LET v == AttrOf(el, id_attr)
       IN IF v.some THEN v.val ELSE FormatInt(i + 1)

\* lines 483-489: the trimmed non-empty texts of the matches, joined by "\n"
RECURSIVE DescBuf(_, _)
DescBuf(found, buf) ==
  IF found = <<>> THEN buf
  ELSE LET t == TextOf(Head(found))
       IN IF Trim(t) # <<>>
          THEN DescBuf(Tail(found), (IF buf # <<>> THEN buf \o <<10>> ELSE buf) \o Trim(t))
          ELSE DescBuf(Tail(found), buf)

\* faulty variant: the fallback to the item's full text is not trimmed
ResolveBody_FallbackUntrimmed(el, desc_sel) ==
  IF desc_sel.some
  THEN LET buf == DescBuf(Select(el, desc_sel.val), <<>>)
       IN IF buf = <<>> THEN TextOf(el) ELSE buf
  ELSE Trim(TextOf(el))

\* lines 481-496
ResolveBody(el, desc_sel) ==
  IF desc_sel.some
  THEN LET buf == DescBuf(Select(el, desc_sel.val), <<>>)
       IN IF buf = <<>> THEN Trim(TextOf(el)) ELSE buf
  ELSE Trim(TextOf(el))

\* lines 459-500: for (i, el) in doc.select(&item_sel).enumerate()
RECURSIVE HtmlLoop(_, _, _, _, _, _)
HtmlLoop(items, i, id_sel, id_attr, desc_sel, units) ==
  IF i >= Len(items) THEN units
  ELSE LET el == items[i + 1]
           id == ResolveId(el, i, id_sel, id_attr)
           body == ResolveBody(el, desc_sel)
       IN HtmlLoop(items, i + 1, id_sel, id_attr, desc_sel,
                   IF body = <<>> THEN units
                   ELSE Append(units, PromptUnit(id, body, NoMeta)))

extract_html_blocks(file, config) ==
  IF ~file.readable THEN Err("read")
  ELSE LET item_sel == SelectorParse(config.item_selector)
           id_sel == IF SelectorGiven(config.id_selector)
                     THEN SelectorParse(config.id_selector.val) ELSE None
           desc_sel == IF SelectorGiven(config.desc_selector)
                       THEN SelectorParse(config.desc_selector.val) ELSE None
           id_attr == IF config.id_attr.some THEN config.id_attr.val ELSE A_id
       IN IF ~item_sel.some THEN Err("Invalid itemSelector")
          ELSE IF SelectorGiven(config.id_selector) /\ ~id_sel.some
               THEN Err("Invalid idSelector")
          ELSE IF SelectorGiven(config.desc_selector) /\ ~desc_sel.some
               THEN Err("Invalid descSelector")
          ELSE Ok(HtmlLoop(Select(file.doc, item_sel.val), 0, id_sel, id_attr, desc_sel, <<>>))

\* what an <li> may hold
LiContents ==
  { <<TextNode(<<104, 105>>)>>,                                      \* hi
    <<TextNode(<<32>>)>>,                                            \* blank
    << Element(T_b, {Attribute(A_id, <<98, 49>>), Attribute(A_k, <<>>)},
               <<TextNode(<<120>>)>>),
       TextNode(<<32, 104, 105, 32>>) >>,            \* <b id="b1" k="">x</b> hi
    << Element(T_b, {}, <<TextNode(<<32, 110, 32>>)>>),
       Element(T_p, {}, <<TextNode(<<116>>)>>),
       Element(T_p, {}, <<TextNode(<<32, 117, 32>>)>>) >>,  \* <b> n </b><p>t</p><p> u </p>
    << Element(T_b, {}, <<TextNode(<<32>>)>>),
       Element(T_p, {}, <<TextNode(<<32>>)>>),
       TextNode(<<122>>) >> }                               \* <b> </b><p> </p>z

ListItems ==
  {Element(T_li, attrs, kids) :
     attrs \in {{}, {Attribute(A_id, <<97, 49>>)}}, kids \in LiContents}

HtmlFiles ==
  {[readable |-> FALSE, doc |-> Element(<<>>, {}, <<>>)]}
  \cup {[readable |-> TRUE, doc |-> Element(<<>>, {}, items)] :
          items \in SeqsUpTo(ListItems, MaxItems)}

HtmlConfig(item, id, attr, desc) ==
  [item_selector |-> item, id_selector |-> id, id_attr |-> attr, desc_selector |-> desc]

HtmlConfigs ==
  {HtmlConfig(item, id, attr, desc) :
     item \in {T_li, T_b},
     id \in {None, Some(<<32, 32>>), Some(T_b)},
     attr \in {None, Some(A_k)},
     desc \in {None, Some(T_p)}}
  \cup { HtmlConfig(<<40>>, None, None, None),
         HtmlConfig(T_li, Some(<<40>>), None, None),
         HtmlConfig(T_li, None, None, Some(<<40>>)) }

ExtractHtml ==
  /\ pc = "idle"
  /\ \E file \in HtmlFiles, config \in HtmlConfigs :
       /\ cmd' = "extract_html_blocks"
       /\ arg' = [file |-> file, config |-> config]
       /\ ret' = extract_html_blocks(file, config)
  /\ pc' = "done"
  /\ UNCHANGED <<html_text, reqs, disk>>

NextHtml == ExtractHtml

SpecHtml == InitExtract /\ [][NextHtml]_vars

(* ========================== extract_api_units ========================== *)
K_code       == <<99, 111, 100, 101>>
K_items_text == <<105, 116, 101, 109, 115, 95, 116, 101, 120, 116>>
K_notes_text == <<110, 111, 116, 101, 115, 95, 116, 101, 120, 116>>
K_items      == <<105, 116, 101, 109, 115>>
K_notes      == <<110, 111, 116, 101, 115>>

\* Value::get(key): None unless v is an object holding the key
ValueGet(v, key) == IF v.t = "object" THEN MapGet(v, key) ELSE None

\* v.get(key).and_then(|x| x.as_array())
GetArray(v, key) ==
  LET x == ValueGet(v, key)
  IN IF x.some /\ x.val.t = "array" THEN Some(x.val.els) ELSE None

\* item.get(key).and_then(|x| x.as_str()).unwrap_or("").trim()
GetTrimmedStr(item, key) ==
  LET x == ValueGet(item, key)
  IN IF x.some /\ x.val.t = "string" THEN Trim(x.val.s) ELSE <<>>

\* lines 544-552: the response shapes accepted
ResponseList(v) ==
  IF v.t = "array" THEN v.els
  ELSE IF GetArray(v, K_items).some THEN GetArray(v, K_items).val
  ELSE IF GetArray(v, K_notes).some THEN GetArray(v, K_notes).val
  ELSE <<v>>

\* which.to_lowercase().starts_with('n')
TakeKey(which) ==
  IF to_lowercase(which) # <<>> /\ Head(to_lowercase(which)) = 110
  THEN K_notes_text ELSE K_items_text

\* lines 557-563
RECURSIVE ApiUnitsLoop(_, _, _)
ApiUnitsLoop(list, take_key, out) ==
  IF list = <<>> THEN out
  ELSE LET code == GetTrimmedStr(Head(list), K_code)
           body == GetTrimmedStr(Head(list), take_key)
       IN ApiUnitsLoop(Tail(list), take_key,
                       IF code # <<>> /\ body # <<>>
                       THEN Append(out, PromptUnit(code, body, NoMeta))
                       ELSE out)

extract_api_units(readable, which, out) ==
  IF ~readable THEN Err("read")
  ELSE IF out.kind # "json" THEN Err(out.kind)
  ELSE Ok(ApiUnitsLoop(ResponseList(out.v), TakeKey(which), <<>>))

\* the objects a units response may list, and a non-object
UnitElems ==
  { JObj(<<KV(K_code, JStr(<<99, 49>>)), KV(K_items_text, JStr(<<32, 116, 32>>)),
           KV(K_notes_text, JStr(<<110>>))>>),
    JObj(<<KV(K_code, JStr(<<32>>)), KV(K_items_text, JStr(<<116>>))>>),
    JObj(<<KV(K_code, JStr(<<99, 50>>)), KV(K_items_text, JStr(<<32>>))>>),
    JObj(<<KV(K_code, JNum(5)), KV(K_items_text, JStr(<<116>>)),
           KV(K_notes_text, JStr(<<32, 109>>))>>),
    JStr(<<115>>) }

UnitResponses ==
  LET lists == SeqsUpTo(UnitElems, MaxArr)
  IN {JArr(l) : l \in lists}
     \cup {JObj(<<KV(K_items, JArr(l))>>) : l \in lists}
     \cup {JObj(<<KV(K_notes, JArr(l))>>) : l \in lists}
     \cup {JObj(<<KV(K_items, JStr(<<115>>)), KV(K_notes, JArr(l))>>) : l \in lists}
     \cup UnitElems

UnitOutcomes ==
  {[kind |-> k, v |-> JNull] : k \in {"send_err", "status_err", "json_err"}}
  \cup {[kind |-> "json", v |-> v] : v \in UnitResponses}

\* "items", "notes", "Notes"
WhichValues == {K_items, K_notes, <<78, 111, 116, 101, 115>>}

ExtractApiUnits ==
  /\ pc = "idle"
  /\ \E readable \in BOOLEAN, which \in WhichValues, out \in UnitOutcomes :
       /\ cmd' = "extract_api_units"
       /\ arg' = [which |-> which, resp |-> IF readable THEN out ELSE NoOutcome]
       /\ reqs' = IF readable THEN <<PostReq(FileBody)>> ELSE <<>>
       /\ ret' = extract_api_units(readable, which, out)
  /\ pc' = "done"
  /\ UNCHANGED <<html_text, disk>>

NextExtract == ExtractExcel \/ ExtractRegex \/ ExtractHtml \/ ExtractApiUnits

SpecExtract == InitExtract /\ [][NextExtract]_vars

(* ============================ save_chunk_file ========================== *)
\* line 690: the last attempt number tried
MaxAttempts == 9999

\* line 653: c.is_ascii_alphanumeric() || c == '.' || c == '-' || c == '_'
IsFilenameChar(c) ==
  \/ c \in 48..57 \/ c \in 65..90 \/ c \in 97..122
  \/ c \in {46, 45, 95}

\* lines 650-659: every other character becomes '_'
MapChars(s) == [i \in DOMAIN s |-> IF IsFilenameChar(s[i]) THEN s[i] ELSE 95]

ContainsDouble(s) == \E i \in 1..(Len(s) - 1) : s[i] = 95 /\ s[i + 1] = 95

\* out.replace("__", "_"): non-overlapping occurrences, left to right
RECURSIVE ReplaceDouble(_)
ReplaceDouble(s) ==
  IF Len(s) < 2 THEN s
  ELSE IF s[1] = 95 /\ s[2] = 95
       THEN <<95>> \o ReplaceDouble(SubSeq(s, 3, Len(s)))
       ELSE <<s[1]>> \o ReplaceDouble(Tail(s))

\* lines 660-662: while out.contains("__")
RECURSIVE CollapseUnderscores(_)
CollapseUnderscores(s) ==
  IF ContainsDouble(s) THEN CollapseUnderscores(ReplaceDouble(s)) ELSE s

\* str::trim_matches(c)
RECURSIVE TrimMatches(_, _)
TrimMatches(s, c) ==
  IF s # <<>> /\ Head(s) = c THEN TrimMatches(Tail(s), c)
  ELSE IF s # <<>> /\ s[Len(s)] = c THEN TrimMatches(SubSeq(s, 1, Len(s) - 1), c)
  ELSE s

sanitize_for_filename(input) ==
  TrimMatches(CollapseUnderscores(MapChars(input)), 95)

S_md == <<109, 100>>
S_chunk == <<99, 104, 117, 110, 107>>
S_dir == <<111, 117, 116>>

\* line 672
ExtSanitized(ext) ==
  sanitize_for_filename(TrimMatches(IF ext.some THEN ext.val ELSE S_md, 46))

\* lines 673-676
BaseSanitized(base) ==
  LET b == sanitize_for_filename(base) IN IF b = <<>> THEN S_chunk ELSE b

\* lines 681-685: base.ext for the first attempt, base--n.ext afterwards
Candidate(base, ext, attempt) ==
  IF attempt = 1 THEN base \o <<46>> \o ext
  ELSE base \o <<45, 45>> \o FormatInt(attempt) \o <<46>> \o ext

\* dir_path.join(name), shown with to_string_lossy
PathIn(name) == S_dir \o <<47>> \o name

\* faulty variant: the first candidate is taken without asking whether it exists
FirstFree_AlwaysFirst(files, base, ext) == 1

\* lines 679-693: the first attempt in 1..9999 whose candidate does not exist,
\* or 0 when attempt has passed 9999
FirstFree(files, base, ext) ==
  LET exists == DOMAIN files
  IN IF \A n \in 1..MaxAttempts : Candidate(base, ext, n) \in exists
     THEN 0
     ELSE CHOOSE n \in 1..MaxAttempts :
             /\ Candidate(base, ext, n) \notin exists
             /\ \A m \in 1..(n - 1) : Candidate(base, ext, m) \in exists

\* fs::write(path, contents): the file is created, then filled
WriteFile(files, name, contents) == (name :> contents) @@ files

\* lines 667-697; `outcome` is what the file system lets the call do
save_chunk_file(files, call, outcome) ==
  LET ext_sanitized == ExtSanitized(call.ext)
      base_sanitized == BaseSanitized(call.base)
      attempt == FirstFree(files, base_sanitized, ext_sanitized)
      final_path == Candidate(base_sanitized, ext_sanitized, attempt)
  IN IF outcome = "mkdir failed" THEN [ret |-> Err(outcome), disk |-> files]
     ELSE IF attempt = 0
          THEN [ret |-> Err("Failed to create a unique filename (too many conflicts)"),
                disk |-> files]
     ELSE IF outcome = "create failed" THEN [ret |-> Err("write failed"), disk |-> files]
     ELSE IF outcome = "write failed"
          THEN [ret |-> Err("write failed"), disk |-> WriteFile(files, final_path, <<>>)]
     ELSE [ret |-> Ok(PathIn(final_path)),
           disk |-> WriteFile(files, final_path, call.contents)]

SaveOutcomes == {"ok", "mkdir failed", "create failed", "write failed"}

\* contents of a file that was in the directory before the first call
S_old == <<111>>

SaveCall(base, ext, contents) == [base |-> base, ext |-> ext, contents |-> contents]

\* base, ext, contents: "a"; "a" with ".md"; "a--2" with "md"; "a b";
\* "/ /" with "t x"; "_a__b_"
SaveCalls ==
  { SaveCall(<<97>>, None, <<120>>),
    SaveCall(<<97>>, Some(<<46, 109, 100>>), <<121>>),
    SaveCall(<<97, 45, 45, 50>>, Some(S_md), <<120>>),
    SaveCall(<<97, 32, 98>>, None, <<121>>),
    SaveCall(<<47, 32, 47>>, Some(<<116, 32, 120>>), <<121>>),
    SaveCall(<<95, 97, 95, 95, 98, 95>>, None, <<120>>) }

NoSaveCall == SaveCall(<<>>, None, <<>>)

\* a directory holding the candidates 1..n of a.md
DirUpTo(n) ==
  LET names == {Candidate(<<97>>, S_md, k) : k \in 1..n}
  IN [f \in names |-> S_old]

\* directories the first call may find: empty, a.md present, every candidate
\* of a.md present, every candidate but the last present
InitialDirs == {DirUpTo(0), DirUpTo(1), DirUpTo(MaxAttempts - 1), DirUpTo(MaxAttempts)}

\* one call is always made; further calls while the directory is small
SaveChunkFile ==
  /\ \/ pc = "idle"
     \/ pc = "done" /\ Cardinality(DOMAIN disk) < MaxFiles
  /\ \E call \in SaveCalls, outcome \in SaveOutcomes :
       LET r == save_chunk_file(disk, call, outcome)
       IN /\ cmd' = "save_chunk_file"
          /\ arg' = call
          /\ ret' = r.ret
          /\ disk' = r.disk
  /\ pc' = "done"
  /\ UNCHANGED <<html_text, reqs>>

InitSave ==
  /\ pc = "idle"
  /\ cmd = "none"
  /\ arg = NoSaveCall
  /\ ret = Err("")
  /\ html_text = NoBody
  /\ reqs = <<>>
  /\ disk \in InitialDirs

NextSave == SaveChunkFile

SpecSave == InitSave /\ [][NextSave]_vars


(* ======================= properties: ApiNormalizer ====================== *)
FetchDone ==
  /\ pc = "done"
  /\ cmd \in {"fetch_api_table", "fetch_api_table_from_url"}
  /\ arg.resp.kind = "json"

\* C1: whenever an array of objects is discovered in the response, the table
\* has one row per discovered object, in order, and every row's key set is
\* exactly the set of columns, a column its object lacks holding "".
C1_RowsMatchColumns ==
  (FetchDone /\ find_array_of_objects(arg.resp.v).some) =>
     LET objs == find_array_of_objects(arg.resp.v).val
         t == ret.val
     IN /\ ret.ok
        /\ Len(t.rows) = Len(objs)
        /\ \A i \in 1..Len(objs) :
             /\ DOMAIN t.rows[i] = Range(t.columns)
             /\ \A c \in Range(t.columns) :
                  t.rows[i][c] = IF c \in Keys(objs[i])
                                 THEN json_to_string(MapGet(objs[i], c).val)
                                 ELSE EmptyStr

\* a table of two rows whose objects differ in their keys, so one is padded
C1_Witness ==
  /\ FetchDone /\ ret.ok
  /\ Len(ret.val.rows) = 2
  /\ \E i \in 1..2 : \E c \in Range(ret.val.columns) :
        /\ c \notin Keys(find_array_of_objects(arg.resp.v).val[i])
        /\ ret.val.rows[i][c] = EmptyStr

\* the tiers of array discovery, stated apart from the code
RECURSIVE KeepObjects(_)
KeepObjects(els) ==
  IF els = <<>> THEN <<>>
  ELSE (IF Head(els).t = "object" THEN <<Head(els)>> ELSE <<>>) \o KeepObjects(Tail(els))

HasObject(val) == val.t = "array" /\ \E i \in 1..Len(val.els) : val.els[i].t = "object"

Tier1(v) == IF v.t = "array" THEN KeepObjects(v.els) ELSE <<>>

Tier2(v) ==
  LET hits == {i \in 1..Len(PreferredKeys) :
                 \E j \in 1..Len(v.kv) :
                    v.kv[j].k = PreferredKeys[i] /\ HasObject(v.kv[j].v)}
  IN IF v.t # "object" \/ hits = {} THEN <<>>
     ELSE LET i == CHOOSE i \in hits : \A h \in hits : i <= h
              j == CHOOSE j \in 1..Len(v.kv) : v.kv[j].k = PreferredKeys[i]
          IN KeepObjects(v.kv[j].v.els)

Tier3(v) ==
  LET hits == {j \in 1..Len(v.kv) : HasObject(v.kv[j].v)}
  IN IF v.t # "object" \/ hits = {} THEN <<>>
     ELSE KeepObjects(v.kv[CHOOSE j \in hits : \A h \in hits : j <= h].v.els)

TierObjects(v) ==
  IF Tier1(v) # <<>> THEN Tier1(v)
  ELSE IF Tier2(v) # <<>> THEN Tier2(v)
  ELSE Tier3(v)

\* C2: discovery takes the root array's objects, else the first of items,
\* rows, data, result, notes, records holding an array with an object, else
\* the first value holding such an array; it fails only when no tier yields
\* an object, and non-object elements are discarded.
C2_DiscoveryTiers ==
  FetchDone =>
     LET want == TierObjects(arg.resp.v)
         got == find_array_of_objects(arg.resp.v)
     IN /\ got = (IF want = <<>> THEN None ELSE Some(want))
        /\ ret.ok <=> want # <<>>
        /\ ret.ok => Len(ret.val.rows) = Len(want)
        /\ ~ret.ok => ret.err \in {"No array of objects in API response",
                                   "No array of objects in extraction response"}

\* a known key whose array has no object is passed over and a later tier answers
C2_Witness ==
  /\ FetchDone /\ ret.ok
  /\ arg.resp.v.t = "object"
  /\ \E j \in 1..Len(arg.resp.v.kv) :
        /\ arg.resp.v.kv[j].k = PreferredKeys[1]
        /\ arg.resp.v.kv[j].v.t = "array"
        /\ ~HasObject(arg.resp.v.kv[j].v)
  /\ Tier2(arg.resp.v) = <<>>


(* ===================== properties: IgnoreTreeScanner ==================== *)
ScanDone == pc = "done" /\ cmd = "scan_dir"

RECURSIVE AllNodes(_)
AllNodes(node) ==
  {node} \cup UNION {AllNodes(node.children[i]) : i \in 1..Len(node.children)}

ChildrenOrdered(cs) ==
  \A i, j \in 1..Len(cs) :
     i < j =>
       /\ ~(~cs[i].is_dir /\ cs[j].is_dir)
       /\ (cs[i].is_dir = cs[j].is_dir
             => ~StrLt(to_lowercase(cs[j].name), to_lowercase(cs[i].name)))

\* C3: at every level of a returned tree the directory nodes precede the file
\* nodes, and each group is in non-decreasing order of lower-cased names.
C3_ChildrenSorted ==
  (ScanDone /\ ret.ok) => \A n \in AllNodes(ret.val) : ChildrenOrdered(n.children)

\* a directory below the root was read with file B before file a, and its
\* node lists a before B
C3_Witness ==
  /\ ScanDone /\ ret.ok
  /\ \E n \in AllNodes(ret.val) :
        /\ Len(n.path) = 2
        /\ Len(n.children) = 2
        /\ n.children[1].name = <<97>> /\ n.children[2].name = <<66>>
        /\ \E i, j \in 1..Len(arg.ents) :
              /\ i < j
              /\ PathOf(arg, j) = n.children[1].path
              /\ PathOf(arg, i) = n.children[2].path

\* the directory holding entry i is listed by the scan
RECURSIVE Listed(_, _)
Listed(fs, d) ==
  IF d = 0 THEN fs.root = "ok"
  ELSE /\ fs.ents[d].dir
       /\ fs.ents[d].fault = "none"
       /\ Head(fs.ents[d].name) # 46
       /\ ~(fs.gi /\ fs.ents[d].ign)
       /\ Listed(fs, fs.parent[d])

\* entry i is a non-root directory matching an ignore pattern, met by the scan
IgnoredDirMet(fs, i) ==
  /\ fs.ents[i].dir
  /\ fs.gi /\ fs.ents[i].ign
  /\ fs.ents[i].fault = "none"
  /\ Head(fs.ents[i].name) # 46
  /\ Listed(fs, fs.parent[i])

IsPrefix(p, q) == Len(p) <= Len(q) /\ SubSeq(q, 1, Len(p)) = p

\* C4 as claimed: an ignored non-root directory is a node of the result with
\* an empty, present children list.
C4_IgnoredDirKeptEmpty ==
  (ScanDone /\ ret.ok) =>
     \A i \in 1..Len(arg.ents) :
        IgnoredDirMet(arg, i) =>
           \E n \in AllNodes(ret.val) :
              /\ n.path = PathOf(arg, i)
              /\ n.is_dir /\ n.has_children /\ n.children = <<>>

\* C4 (amended): an ignored non-root directory is left out of its parent's
\* children, and nothing below it is in the result either.
C4_IgnoredDirOmitted ==
  (ScanDone /\ ret.ok) =>
     \A i \in 1..Len(arg.ents) :
        IgnoredDirMet(arg, i) =>
           \A n \in AllNodes(ret.val) : ~IsPrefix(PathOf(arg, i), n.path)

\* a scan that met an ignored directory holding an entry of its own
C4_Witness ==
  /\ ScanDone /\ ret.ok
  /\ \E i, j \in 1..Len(arg.ents) :
        IgnoredDirMet(arg, i) /\ arg.parent[j] = i

\* C5 as claimed: a scan of an existing, listable root returns a tree whatever
\* cannot be read below the root.
C5_DescendantFaultsSwallowed ==
  (ScanDone /\ arg.root = "ok") => ret.ok


(* ====================== properties: TabularExtractor ==================== *)
ExcelDone == pc = "done" /\ cmd = "extract_excel_units"

\* the 0-based indices of the rows strictly after the header row
DataRowsOf(rows) ==
  LET nonEmpty == {i \in 0..(Len(rows) - 1) :
                     \E j \in 1..Len(rows[i + 1]) : rows[i + 1][j].t # "Empty"}
      h == CHOOSE i \in nonEmpty : \A k \in nonEmpty : i <= k
  IN IF nonEmpty = {} THEN {} ELSE {i \in 0..(Len(rows) - 1) : i > h}

TrimmedText(row, idx) ==
  LET x == CellText(row, idx) IN IF x.some THEN Trim(x.val) ELSE <<>>

\* C6: on success every unit has a non-empty id and body, the units are in
\* row order, and there are as many units as rows after the header less the
\* rows with a blank trimmed id or no non-empty trimmed description cell.
C6_UnitsAreTheGoodRows ==
  (ExcelDone /\ ret.ok) =>
     LET rows == arg.wb.rows
         header == HeaderNames(rows[FirstNonEmptyRow(rows, 0) + 1])
         idc == Position(header, arg.config.id_column)
         descs == {Position(header, arg.config.description_columns[k]) :
                     k \in 1..Len(arg.config.description_columns)}
         data == DataRowsOf(rows)
         dropped == {i \in data :
                       \/ TrimmedText(rows[i + 1], idc) = <<>>
                       \/ \A dc \in descs : TrimmedText(rows[i + 1], dc) = <<>>}
         units == ret.val
     IN /\ \A k \in 1..Len(units) : units[k].id # <<>> /\ units[k].body # <<>>
        /\ Len(units) = Cardinality(data) - Cardinality(dropped)
        /\ \A k \in 1..Len(units) : units[k].meta.rowIndex \in data \ dropped
        /\ \A k, l \in 1..Len(units) :
              k < l => units[k].meta.rowIndex < units[l].meta.rowIndex

\* a header followed by two rows, one kept (its body joined from two cells)
\* and one dropped
C6_Witness ==
  /\ ExcelDone /\ ret.ok
  /\ Len(arg.wb.rows) = 3
  /\ Len(ret.val) = 1
  /\ 10 \in Range(ret.val[1].body)
  /\ Cardinality(DataRowsOf(arg.wb.rows)) = 2


InspectDone == pc = "done" /\ cmd = "inspect_excel"

\* a header cell that is empty or holds only whitespace
BlankCell(c) == c.t = "Empty" \/ (c.t = "String" /\ Trim(c.s) = <<>>)

\* C14: in inspect_excel and in extract_excel_units alike, every empty or
\* whitespace-only cell of the header row (the first row with a non-empty
\* cell) is named col<N>, and extract_excel_units resolves columns against
\* the very names inspect_excel reports for the sheet.
C14_SameHeaderNames ==
  ((InspectDone \/ ExcelDone) /\ arg.wb.open = "ok"
     /\ FirstNonEmptyRow(arg.wb.rows, 0) >= 0) =>
     LET row == arg.wb.rows[FirstNonEmptyRow(arg.wb.rows, 0) + 1]
         names == IF InspectDone THEN ret.val[1] ELSE HeaderNames(row)
     IN /\ \A j \in 1..Len(row) : BlankCell(row[j]) => names[j] = ColName(j)
        /\ ExcelDone => names = SheetColumns(arg.wb.rows)


(* ===================== properties: DelimiterExtractor =================== *)
RegexDone == pc = "done" /\ cmd = "extract_regex_blocks"

UnitBodies(units) == [k \in 1..Len(units) |-> units[k].body]

\* the start offsets and the matched texts of the delimiter in the document
DelimStarts ==
  FindIterStarts(BuildRegex(arg.config.delimiter, arg.config.flags), arg.file.text, 0)

DelimTexts ==
  LET re == BuildRegex(arg.config.delimiter, arg.config.flags)
  IN [k \in 1..Len(DelimStarts) |->
        SubSeq(arg.file.text, DelimStarts[k] + 1,
               DelimStarts[k] + MatchLenAt(re, arg.file.text, DelimStarts[k]))]

\* b1 d1 b2 d2 ... : the bodies with the matched delimiters put between them
RECURSIVE Interleave(_, _)
Interleave(bodies, delims) ==
  IF bodies = <<>> THEN Concat(delims)
  ELSE IF delims = <<>> THEN Concat(bodies)
  ELSE Head(bodies) \o Head(delims) \o Interleave(Tail(bodies), Tail(delims))

\* C7 as claimed: the bodies in order, with the matched delimiters (which the
\* bodies carry at their heads, or put between or before them), give back the
\* trimmed document.
C7_BodiesReconstructDocument ==
  (RegexDone /\ ret.ok) =>
     LET bodies == UnitBodies(ret.val)
         doc == Trim(arg.file.text)
     IN \/ doc = Concat(bodies)
        \/ doc = Interleave(bodies, DelimTexts)
        \/ doc = Interleave(DelimTexts, bodies)

\* text = w0 b1 w1 b2 ... bk wk with every wi made of whitespace only
RECURSIVE CoversUpToWhitespace(_, _)
CoversUpToWhitespace(text, bodies) ==
  IF bodies = <<>> THEN \A k \in 1..Len(text) : IsWs(text[k])
  ELSE LET t == TrimStart(text)
           b == Head(bodies)
       IN /\ Len(b) <= Len(t)
          /\ SubSeq(t, 1, Len(b)) = b
          /\ CoversUpToWhitespace(SubSeq(t, Len(b) + 1, Len(t)), Tail(bodies))

\* C7 (amended): the bodies are non-overlapping slices of the document, in
\* order, and what lies between and around them is whitespace only: no
\* non-whitespace character is lost or duplicated, while the whitespace at
\* the edges of a segment is lost.
C7_BodiesCoverDocument ==
  (RegexDone /\ ret.ok) => CoversUpToWhitespace(arg.file.text, UnitBodies(ret.val))

\* two segments kept, the whitespace between them lost to trimming
C7_Witness ==
  /\ RegexDone /\ ret.ok
  /\ Len(ret.val) = 2
  /\ Len(DelimStarts) >= 1
  /\ Len(Concat(UnitBodies(ret.val))) < Len(Trim(arg.file.text))

\* the trimmed half-open segments cut at 0, the match starts and len(text)
SegmentsOf(text, starts) ==
  LET cuts == [k \in 1..(Len(starts) + 2) |->
                 IF k = 1 THEN 0
                 ELSE IF k = Len(starts) + 2 THEN Len(text)
                 ELSE starts[k - 1]]
  IN [k \in 1..(Len(starts) + 1) |-> Trim(SubSeq(text, cuts[k] + 1, cuts[k + 1]))]

\* C8: with matches at m1..mk the units are the non-empty trimmed segments
\* cut at [0, m1, ..., mk, len(text)], numbered "1", "2", ... when there is no
\* id-capture pattern; with no match the trimmed document is the one segment.
C8_SegmentsAndNumbering ==
  (RegexDone /\ ret.ok /\ ~arg.config.id_capture.some) =>
     LET text == arg.file.text
         kept == IF DelimStarts = <<>>
                 THEN SelectSeq(<<Trim(text)>>, LAMBDA b : b # <<>>)
                 ELSE SelectSeq(SegmentsOf(text, DelimStarts), LAMBDA b : b # <<>>)
     IN /\ Len(ret.val) = Len(kept)
        /\ \A k \in 1..Len(kept) :
              /\ ret.val[k].body = kept[k]
              /\ ret.val[k].id = FormatInt(k)

\* a whitespace-only segment is dropped between two kept ones: ids "1", "2"
C8_Witness ==
  /\ RegexDone /\ ret.ok /\ ~arg.config.id_capture.some
  /\ Len(DelimStarts) >= 2
  /\ Len(ret.val) = 2
  /\ ret.val[2].id = <<50>>
  /\ \E k \in 1..Len(DelimStarts) :
        /\ SegmentsOf(arg.file.text, DelimStarts)[k] = <<>>
        /\ (k = 1 \/ DelimStarts[k - 1] < DelimStarts[k])
        /\ (k = 1 => DelimStarts[1] > 0)


\* the id-capture pattern as built, and its first capture group in a text
IdRegex ==
  IF arg.config.id_capture.some
  THEN Some(BuildRegex(arg.config.id_capture.val, arg.config.flags))
  ELSE None

FirstGroup(text) == CaptureId(IdRegex, text)

\* C13: when the delimiter matches, the k-th unit's id is the first capture
\* group of the id-capture pattern in that segment, and otherwise (no pattern,
\* no match, no first group) k itself: the number of units emitted before it
\* plus one.  When the delimiter does not match, the one unit's id is the
\* first capture group in the document, and otherwise the literal "1".
C13_IdFallbacks ==
  (RegexDone /\ ret.ok) =>
     \A k \in 1..Len(ret.val) :
        LET searched == IF DelimStarts = <<>> THEN arg.file.text ELSE ret.val[k].body
            fallback == IF DelimStarts = <<>> THEN <<49>> ELSE FormatInt(k)
        IN ret.val[k].id = IF FirstGroup(searched).some
                           THEN FirstGroup(searched).val
                           ELSE fallback

\* " #a#" cut at "#": the blank first segment takes no number, "#a" takes its
\* captured id "a" and still counts, so the last unit "#" falls back to "2"
C13_Witness ==
  /\ RegexDone /\ ret.ok
  /\ arg.config.id_capture.some
  /\ Len(DelimStarts) = 2 /\ DelimStarts[1] > 0
  /\ Len(ret.val) = 2
  /\ FirstGroup(ret.val[1].body).some
  /\ ret.val[1].id = <<97>>
  /\ ~FirstGroup(ret.val[2].body).some
  /\ ret.val[2].id = <<50>>


(* ========================= properties: DomExtractor ===================== *)
HtmlDone == pc = "done" /\ cmd = "extract_html_blocks"

\* the elements matched by the item selector, in document order
MatchedItems == Select(arg.file.doc, Trim(arg.config.item_selector))

\* the id the claim gives the item at 0-based position i
ClaimedId(el, i) ==
  LET attr == IF arg.config.id_attr.some THEN arg.config.id_attr.val ELSE A_id
      position == FormatInt(i + 1)
      withSelector == arg.config.id_selector.some /\ Trim(arg.config.id_selector.val) # <<>>
      matches == SelectSeq(ElementsBelow(el),
                           LAMBDA e : e.tag = Trim(arg.config.id_selector.val))
  IN CASE withSelector /\ matches = <<>> -> position
       [] withSelector /\ matches # <<>> /\ AttrOf(matches[1], attr).some ->
            AttrOf(matches[1], attr).val
       [] withSelector /\ matches # <<>> /\ ~AttrOf(matches[1], attr).some ->
            IF Trim(TextOf(matches[1])) # <<>> THEN Trim(TextOf(matches[1])) ELSE position
       [] ~withSelector /\ AttrOf(el, attr).some -> AttrOf(el, attr).val
       [] ~withSelector /\ ~AttrOf(el, attr).some -> position

\* C9: the unit of the item at position i among all matched items carries the
\* descendant's attribute, else its trimmed text, else i+1 (with an
\* id-selector), or the item's own attribute, else i+1 (without); i counts
\* the items dropped for an empty body.
C9_IdResolution ==
  (HtmlDone /\ ret.ok) =>
     LET items == MatchedItems
         desc_sel == IF SelectorGiven(arg.config.desc_selector)
                     THEN SelectorParse(arg.config.desc_selector.val) ELSE None
         kept == SelectSeq([i \in 1..Len(items) |-> i],
                           LAMBDA i : ResolveBody(items[i], desc_sel) # <<>>)
     IN /\ Len(ret.val) = Len(kept)
        /\ \A k \in 1..Len(kept) :
              ret.val[k].id = ClaimedId(items[kept[k]], kept[k] - 1)

\* the first item is dropped for an empty body and the second, without the
\* attribute, is given the id "2" and not its text
C9_Witness ==
  /\ HtmlDone /\ ret.ok
  /\ ~arg.config.id_selector.some
  /\ Len(MatchedItems) = 2
  /\ Len(ret.val) = 1
  /\ ret.val[1].id = <<50>>
  /\ Trim(TextOf(MatchedItems[1])) = <<>>


(* ======================== properties: every extractor =================== *)
ExtractDone ==
  /\ pc = "done"
  /\ cmd \in {"extract_excel_units", "extract_regex_blocks",
              "extract_html_blocks", "extract_api_units"}

\* the failures of a whole call: unreadable input, bad configuration, transport
WholeCallErrors ==
  {"open", "Sheet not found", "Could not detect header row", "ID column not found",
   "Description column not found", "read", "regex", "Invalid itemSelector",
   "Invalid idSelector", "Invalid descSelector", "send_err", "status_err", "json_err"}

\* C10: every unit an extraction returns has a non-empty body without
\* leading or trailing whitespace; an empty body leaves the unit out and is
\* never the reason a call fails.
C10_BodiesTrimmedNonEmpty ==
  ExtractDone =>
     /\ ret.ok =>
          \A k \in 1..Len(ret.val) :
             LET body == ret.val[k].body
             IN body # <<>> /\ ~IsWs(body[1]) /\ ~IsWs(body[Len(body)])
     /\ ~ret.ok => ret.err \in WholeCallErrors

\* a response of two objects: the text of one is trimmed into a body, the
\* other's text is blank and it is left out
C10_Witness ==
  /\ pc = "done" /\ cmd = "extract_api_units" /\ ret.ok
  /\ arg.resp.kind = "json"
  /\ Len(ResponseList(arg.resp.v)) = 2
  /\ Len(ret.val) = 1
  /\ \E i \in 1..2 :
        LET x == ValueGet(ResponseList(arg.resp.v)[i], TakeKey(arg.which))
        IN /\ x.some /\ x.val.t = "string"
           /\ x.val.s # <<>> /\ Trim(x.val.s) = <<>>
           /\ GetTrimmedStr(ResponseList(arg.resp.v)[i], K_code) # <<>>
  /\ \E i \in 1..2 :
        LET x == ValueGet(ResponseList(arg.resp.v)[i], TakeKey(arg.which))
        IN x.some /\ x.val.t = "string" /\ Trim(x.val.s) = ret.val[1].body
           /\ x.val.s # ret.val[1].body


(* =================== properties: fetch_api_table_from_url =============== *)
UrlRun == cmd = "fetch_api_table_from_url"

GetsIssued == SelectSeq(reqs, LAMBDA r : r.method = "GET")
PostsIssued == SelectSeq(reqs, LAMBDA r : r.method = "POST")

\* the URL is one the /current/ fallback applies to
KnownPattern(url) == "ecfr.gov" \in Range(url) /\ "on" \in Range(url)

\* C11: the URL recovery is a one-shot alternate attempt: at most one more GET,
\* issued only after the first GET answered with a success whose body lacks
\* the marker and for a URL of the known pattern; the one POST follows every
\* GET and its answer, never follows a failed first GET, and carries the
\* retried body exactly when the retry was a success holding the marker, else
\* the first body.
C11_OneShotRecovery ==
  UrlRun =>
     LET gets == GetsIssued
         posts == PostsIssued
         answers == arg.gets
     IN /\ Len(gets) \in {1, 2}
        /\ reqs[1] = GetReq(arg.url)
        /\ Len(answers) <= Len(gets)
        /\ Len(gets) = 2 =>
              /\ reqs[2] = GetReq(ReplaceOn(arg.url))
              /\ answers[1].result = "ok"
              /\ ~answers[1].body.marker
              /\ KnownPattern(arg.url)
        /\ Len(posts) <= 1
        /\ Len(posts) = 1 =>
              /\ reqs[Len(reqs)].method = "POST"
              /\ Len(answers) = Len(gets)
              /\ answers[1].result = "ok"
              /\ LET retried == /\ Len(gets) = 2
                                /\ answers[2].result = "ok"
                                /\ answers[2].body.marker
                 IN posts[1].body = IF retried THEN answers[2].body
                                    ELSE answers[1].body

\* the fallback was tried, came back with the marker, and its body was posted
C11_Witness ==
  /\ UrlRun /\ pc = "done"
  /\ Len(GetsIssued) = 2
  /\ Len(PostsIssued) = 1
  /\ PostsIssued[1].body.page = "retry"
  /\ arg.gets[1].body.page = "first"


(* ======================== properties: save_chunk_file =================== *)
\* C12: no call of save_chunk_file changes a file that was in the directory
\* before it; a call that succeeds writes its contents to the candidate of
\* the smallest attempt number in 1..9999 that did not exist (base.ext, then
\* base--2.ext, base--3.ext, ...) and adds nothing else; when every candidate
\* up to 9999 exists the call fails and the directory is left as it was.
C12_NoOverwrite ==
  [][ LET call == arg'
          base == BaseSanitized(call.base)
          ext == ExtSanitized(call.ext)
          before == DOMAIN disk
          Taken(n) == Candidate(base, ext, n) \in before
      IN /\ \/ disk' = disk
            \/ \E f \in DOMAIN disk' \ before : disk' = (f :> disk'[f]) @@ disk
         /\ ret'.ok =>
               \E n \in 1..MaxAttempts :
                  /\ ~Taken(n)
                  /\ \A m \in 1..(n - 1) : Taken(m)
                  /\ ret'.val = PathIn(Candidate(base, ext, n))
                  /\ DOMAIN disk' = before \cup {Candidate(base, ext, n)}
                  /\ disk'[Candidate(base, ext, n)] = call.contents
         /\ (\A n \in 1..MaxAttempts : Taken(n)) => (~ret'.ok /\ disk' = disk)
    ]_vars

\* three saves of the same base and extension into an empty directory:
\* a.md, a--2.md and a--3.md each hold what their own call wrote
C12_Witness ==
  /\ cmd = "save_chunk_file" /\ ret.ok
  /\ ret.val = PathIn(<<97, 45, 45, 51, 46, 109, 100>>)
  /\ disk = [f \in {<<97, 46, 109, 100>>,
                    <<97, 45, 45, 50, 46, 109, 100>>,
                    <<97, 45, 45, 51, 46, 109, 100>>}
               |-> IF f = <<97, 45, 45, 50, 46, 109, 100>> THEN <<121>> ELSE <<120>>]

====
